---- MODULE Spec2Model ----
(***************************************************************************)
(* Model of the document summarizer: the "Give Summary" handler of         *)
(* main.py and the VectorDB class of utilities/vector_db.py, run against   *)
(* a vector store (Pinecone), the pointer file const.json and the file     *)
(* output.pdf of the working directory.                                    *)
(*                                                                         *)
(* A request is one run of the handler (main.py:28-51).  Every provider    *)
(* call is a step of its own: it may fail (the exception propagates and    *)
(* the request is abandoned) and, when two requests run at once, the       *)
(* other request may move between two steps.                               *)
(***************************************************************************)
EXTENDS Integers, Sequences, FiniteSets, TLC

\* ------------------------------------------------------------ bounds
\* Documents of the request model are the byte strings <<k, .., k>> (k
\* times k), k in 1..NumDocs.
NumDocs == 2
\* Longest chunk list handed to the batching code.
MaxChunks == 200
\* Longest upload content and most get_hash calls of the fingerprint model.
MaxLen == 2
MaxHashCalls == 3
\* Most requests the two sessions start in the interleaved model.
MaxRequests == 3
\* Byte values of the fingerprint model are 1..NumBytes.
NumBytes == 2

\* ------------------------------------------------- program constants
\* The provider's batch limit, vector_db.py:77,86,95.
BATCH == 96
\* top_k of the query, vector_db.py:178.
TOP_K == 10

\* The sessions that may run the handler: one, or two at once.
Procs == {1, 2}
\* Python's None, among index names (which are naturals here).
None == 0 - 1

\* ------------------------------------------------------------- state
VARIABLES
    store,          \* the vector store: index name -> NoIndex or an index
    const_json,     \* const.json: "missing", "empty" (truncated) or [name |-> ..]
    output_pdf,     \* output.pdf of the working directory: None or a content
    pc,             \* where each request stands
    uploaded_file,  \* the upload's bytes (UploadedFile)
    pos,            \* the upload's read position
    index_name,     \* self.index_name
    hash_value,     \* hash_value of the handler
    is_index_exist, \* is_index_exist of the handler
    data_list,      \* data_list of convert_vectors
    embeddings_list,\* embeddings_list of convert_vectors
    embed_inputs,   \* the inputs of each passage-mode embed call, in call order
    name_read,      \* data.get('name') of the handler
    index,          \* the handler's index handle: the name of its index
    response,       \* the texts get_results returned
    calls,          \* the provider calls and file operations the request issued
    start_store,    \* the store when the request started
    start_const,    \* const.json when the request started
    abort_cause,    \* the exception that ended an abandoned request, and where
    failed_ever,    \* some provider call has failed in this run
    hash_log,       \* the get_hash calls made, in call order
    started         \* the requests started so far (interleaved model)

vars == <<store, const_json, output_pdf, pc, uploaded_file, pos, index_name,
          hash_value, is_index_exist, data_list, embeddings_list, embed_inputs,
          name_read, index, response, calls, start_store, start_const,
          abort_cause, failed_ever, hash_log, started>>

\* ------------------------------------------------------- python helpers
\* seq[a:b] of Python for 0 <= a: the elements at 0-based positions a..b-1.
Slice(seq, a, b) ==
    SubSeq(seq, a + 1, IF b > Len(seq) THEN Len(seq) ELSE b)

RECURSIVE Flatten(_)
\* list.extend over the batches, in order.
Flatten(seqs) ==
    IF seqs = <<>> THEN <<>> ELSE Head(seqs) \o Flatten(Tail(seqs))

Min(a, b) == IF a < b THEN a ELSE b

\* ----------------------------------------------------------- documents
\* The documents of the request model.
Docs == { [i \in 1..k |-> k] : k \in 1..NumDocs }

\* The uploads of the fingerprint model: every byte string up to MaxLen.
Contents == UNION { [1..n -> 1..NumBytes] : n \in 0..MaxLen }

RECURSIVE sha256(_)
\* hashlib.sha256 as a digest that is injective on the byte strings of the
\* model (bytes are 1..255): the number the bytes spell in base 256.
sha256(file_content) ==
    IF file_content = <<>> THEN 0
    ELSE Head(file_content) + 256 * sha256(Tail(file_content))

\* get_hash on an upload whose bytes are content and whose read position is
\* position: read() returns the bytes from the position on and leaves the
\* position at the end; the name is stored in self.index_name and returned.
get_hash(content, position) ==
    LET file_content == Slice(content, position, Len(content))
        base64_hash  == sha256(file_content)
    IN  [ret |-> base64_hash, index_name |-> base64_hash, pos |-> Len(content)]

\* The index names the requests can compute.
Names == { get_hash(d, 0).ret : d \in Docs }

\* PyPDFLoader + RecursiveCharacterTextSplitter on the file at output_file:
\* the texts of the document found there, in document order.
split_documents(content) ==
    [i \in 1..Len(content) |-> <<content, i>>]

\* data_list of convert_vectors: ids Vec1, Vec2, .. in document order.
MakeDataList(docs) ==
    [i \in 1..Len(docs) |-> [id |-> i, text |-> docs[i]]]

\* ------------------------------------------------------------ provider
\* pc.inference.embed: one embedding per input, in input order.
embed(inputs) ==
    [i \in 1..Len(inputs) |-> [values |-> <<"e5", inputs[i]>>]]

NoIndex == [exists |-> FALSE, vectors |-> <<>>]

has_index(st, name) == name \in DOMAIN st /\ st[name].exists

\* pc.create_index: the index exists and holds no record.
pc_create_index(st, name) ==
    [st EXCEPT ![name] = [exists |-> TRUE, vectors |-> <<>>]]

\* pc_delete_index that deletes nothing.
pc_delete_index_kept(st, name) == st

\* pc.delete_index: the index and all its records are gone.
pc_delete_index(st, name) == [st EXCEPT ![name] = NoIndex]

\* index.upsert: records are written by id, over the records of the same id.
index_upsert(st, name, records) ==
    LET old == st[name].vectors
        n   == IF Len(old) > Len(records) THEN Len(old) ELSE Len(records)
    IN  [st EXCEPT ![name].vectors =
            [i \in 1..n |-> IF i <= Len(records) THEN records[i] ELSE old[i]]]

\* index.query + the list comprehension of get_results: the texts of the
\* top_k matches.
index_query(st, name) ==
    LET v == st[name].vectors
    IN  [i \in 1..Min(TOP_K, Len(v)) |-> v[i].metadata.text]

\* ------------------------------------------------ convert_vectors: batches
RECURSIVE ForLoopEagerTail(_, _, _, _)
\* ForLoop with the test before the tail call left out: the rest of the list
\* is sent after every full batch.
ForLoopEagerTail(texts, data, prev_index, batches) ==
    IF data >= Len(texts) THEN batches
    ELSE LET sent == Append(batches, Slice(texts, prev_index, data))
             tail == Append(sent, Slice(texts, data, Len(texts)))
         IN  ForLoopEagerTail(texts, data + BATCH, data, tail)

RECURSIVE ForLoop(_, _, _, _)
\* The loop "for data in range(96, len(data_list), 96)" from the iteration
\* whose loop variable is data on: batches is the list of inputs sent so far.
ForLoop(texts, data, prev_index, batches) ==
    IF data >= Len(texts) THEN batches
    ELSE LET sent == Append(batches, Slice(texts, prev_index, data))
             tail == IF data + BATCH > Len(texts)
                     THEN Append(sent, Slice(texts, data, Len(texts)))
                     ELSE sent
         IN  ForLoop(texts, data + BATCH, data, tail)

\* The inputs of the passage-mode embed calls convert_vectors issues for
\* data_list, in call order.
EmbedCalls(dl) ==
    LET texts == [i \in 1..Len(dl) |-> dl[i].text]
    IN  IF Len(dl) < BATCH THEN << texts >>
        ELSE ForLoop(texts, BATCH, 0, << >>)

\* embeddings_list: the embeddings of every call, extended in call order.
EmbeddingsOf(batches) ==
    Flatten([k \in 1..Len(batches) |-> embed(batches[k])])

\* records of load_vectors: zip stops at the shorter list.
Records(dl, embeddings) ==
    [i \in 1..Min(Len(dl), Len(embeddings)) |->
        [id |-> dl[i].id, values |-> embeddings[i].values,
         metadata |-> [text |-> dl[i].text]]]

\* validate_index that falls through to its implicit None for every key.
validate_index_none(st, hash_key) == FALSE

\* VectorDB.validate_index: True when the index exists (None otherwise).
validate_index(st, hash_key) == has_index(st, hash_key)

\* VectorDB.delete_index: the provider is called only for a truthy name.
Truthy(name) == name # None

\* Branch with the test lost: every request rebuilds.
BranchAlwaysBuild(exist) == "save_pdf"

\* The branch of the handler on is_index_exist.
Branch(exist) == IF ~exist THEN "save_pdf" ELSE "pc_index"

\* ------------------------------------------------------------ requests
\* The steps at which the request is inside a provider call.
ProviderPcs == {"validate_index", "enhance_query", "embed", "has_index",
                "create_index", "describe_index", "upsert", "delete_index",
                "pc_index", "embed_query", "query", "get_summary"}

Finished == {"done", "aborted"}

\* What a provider call raises; "JSONDecodeError" is json.load's.
ProviderErrors == {"AlreadyExists", "NotFound", "Unavailable"}

Call(p, what) == calls' = [calls EXCEPT ![p] = Append(@, what)]
Goto(p, where) == pc' = [pc EXCEPT ![p] = where]

NoAbort == [cause |-> "none", at |-> "none"]

\* An exception leaves the handler: the request is abandoned where it stands.
Raise(p, cause) ==
    /\ Goto(p, "aborted")
    /\ abort_cause' = [abort_cause EXCEPT ![p] = [cause |-> cause, at |-> pc[p]]]
    /\ failed_ever' = (failed_ever \/ cause \in ProviderErrors)
    /\ UNCHANGED <<store, const_json, output_pdf, uploaded_file, pos,
                   index_name, hash_value, is_index_exist, data_list,
                   embeddings_list, embed_inputs, name_read, index, response,
                   calls, start_store, start_const, hash_log, started>>

\* A freshly constructed request: nothing read, nothing computed.
Fresh(p) ==
    /\ uploaded_file' = [uploaded_file EXCEPT ![p] = <<>>]
    /\ pos' = [pos EXCEPT ![p] = 0]
    /\ index_name' = [index_name EXCEPT ![p] = None]
    /\ hash_value' = [hash_value EXCEPT ![p] = None]
    /\ is_index_exist' = [is_index_exist EXCEPT ![p] = FALSE]
    /\ data_list' = [data_list EXCEPT ![p] = <<>>]
    /\ embeddings_list' = [embeddings_list EXCEPT ![p] = <<>>]
    /\ embed_inputs' = [embed_inputs EXCEPT ![p] = <<>>]
    /\ name_read' = [name_read EXCEPT ![p] = None]
    /\ index' = [index EXCEPT ![p] = None]
    /\ response' = [response EXCEPT ![p] = <<>>]
    /\ calls' = [calls EXCEPT ![p] = <<>>]
    /\ abort_cause' = [abort_cause EXCEPT ![p] = NoAbort]

Init ==
    /\ store = [n \in Names |-> NoIndex]
    /\ const_json = [state |-> "missing", name |-> None]
    /\ output_pdf = <<>>
    /\ pc = [p \in Procs |-> "idle"]
    /\ uploaded_file = [p \in Procs |-> <<>>]
    /\ pos = [p \in Procs |-> 0]
    /\ index_name = [p \in Procs |-> None]
    /\ hash_value = [p \in Procs |-> None]
    /\ is_index_exist = [p \in Procs |-> FALSE]
    /\ data_list = [p \in Procs |-> <<>>]
    /\ embeddings_list = [p \in Procs |-> <<>>]
    /\ embed_inputs = [p \in Procs |-> <<>>]
    /\ name_read = [p \in Procs |-> None]
    /\ index = [p \in Procs |-> None]
    /\ response = [p \in Procs |-> <<>>]
    /\ calls = [p \in Procs |-> <<>>]
    /\ start_store = [p \in Procs |-> [n \in Names |-> NoIndex]]
    /\ start_const = [p \in Procs |-> [state |-> "missing", name |-> None]]
    /\ abort_cause = [p \in Procs |-> NoAbort]
    /\ failed_ever = FALSE
    /\ hash_log = <<>>
    /\ started = 0

\* ------------------------------------------------- the handler, step by step
\* main.py:17-28: a document is uploaded and "Give Summary" is pressed; the
\* run constructs its own VectorDB around the upload.
Start(p) ==
    /\ pc[p] = "idle"
    /\ \E d \in Docs : uploaded_file' = [uploaded_file EXCEPT ![p] = d]
    /\ Goto(p, "get_hash")
    /\ UNCHANGED <<store, const_json, output_pdf, pos, index_name, hash_value,
                   is_index_exist, data_list, embeddings_list, embed_inputs,
                   name_read, index, response, calls, abort_cause,
                   failed_ever, hash_log>>

\* One request at a time: a request starts when no other is in progress.
\* The store and const.json as the request found them are remembered.
SeqStart(p) ==
    /\ \A q \in Procs \ {p} : pc[q] = "idle"
    /\ Start(p)
    /\ start_store' = [start_store EXCEPT ![p] = store]
    /\ start_const' = [start_const EXCEPT ![p] = const_json]
    /\ UNCHANGED started

\* A request starts whatever the other session is doing.
ConcStart(p) ==
    /\ started < MaxRequests
    /\ Start(p)
    /\ started' = started + 1
    /\ UNCHANGED <<start_store, start_const>>

\* main.py:29.
GetHash(p) ==
    /\ pc[p] = "get_hash"
    /\ LET r == get_hash(uploaded_file[p], pos[p])
       IN  /\ pos' = [pos EXCEPT ![p] = r.pos]
           /\ index_name' = [index_name EXCEPT ![p] = r.index_name]
           /\ hash_value' = [hash_value EXCEPT ![p] = r.ret]
    /\ Goto(p, "validate_index")
    /\ UNCHANGED <<store, const_json, output_pdf, uploaded_file,
                   is_index_exist, data_list, embeddings_list, embed_inputs,
                   name_read, index, response, calls, start_store,
                   start_const, abort_cause, failed_ever, hash_log, started>>

\* main.py:30.
ValidateIndex(p) ==
    /\ pc[p] = "validate_index"
    /\ is_index_exist' =
          [is_index_exist EXCEPT ![p] = validate_index(store, hash_value[p])]
    /\ Call(p, "has_index")
    /\ Goto(p, "enhance_query")
    /\ UNCHANGED <<store, const_json, output_pdf, uploaded_file, pos,
                   index_name, hash_value, data_list, embeddings_list,
                   embed_inputs, name_read, index, response, start_store,
                   start_const, abort_cause, failed_ever, hash_log, started>>

\* main.py:31 and the branch of main.py:33.
EnhanceQuery(p) ==
    /\ pc[p] = "enhance_query"
    /\ Call(p, "generate")
    /\ Goto(p, Branch(is_index_exist[p]))
    /\ UNCHANGED <<store, const_json, output_pdf, uploaded_file, pos,
                   index_name, hash_value, is_index_exist, data_list,
                   embeddings_list, embed_inputs, name_read, index, response,
                   start_store, start_const, abort_cause, failed_ever,
                   hash_log, started>>

\* chunk, first half: save_pdf writes the upload to output.pdf.
SavePdf(p) ==
    /\ pc[p] = "save_pdf"
    /\ output_pdf' = uploaded_file[p]
    /\ Call(p, "chunk")
    /\ Goto(p, "load_pdf")
    /\ UNCHANGED <<store, const_json, uploaded_file, pos, index_name,
                   hash_value, is_index_exist, data_list, embeddings_list,
                   embed_inputs, name_read, index, response, start_store,
                   start_const, abort_cause, failed_ever, hash_log, started>>

\* chunk, second half, and the loop that builds data_list: the loader reads
\* whatever output.pdf holds now.
LoadPdf(p) ==
    /\ pc[p] = "load_pdf"
    /\ data_list' =
          [data_list EXCEPT ![p] = MakeDataList(split_documents(output_pdf))]
    /\ Goto(p, "embed")
    /\ UNCHANGED <<store, const_json, output_pdf, uploaded_file, pos,
                   index_name, hash_value, is_index_exist, embeddings_list,
                   embed_inputs, name_read, index, response, calls,
                   start_store, start_const, abort_cause, failed_ever,
                   hash_log, started>>

\* convert_vectors, the embed calls (vector_db.py:75-101).
EmbedPassages(p) ==
    /\ pc[p] = "embed"
    /\ LET batches == EmbedCalls(data_list[p])
       IN  /\ embed_inputs' = [embed_inputs EXCEPT ![p] = batches]
           /\ embeddings_list' =
                 [embeddings_list EXCEPT ![p] = EmbeddingsOf(batches)]
           /\ calls' = [calls EXCEPT ![p] =
                 @ \o [k \in 1..Len(batches) |-> "embed_passage"]]
    /\ Goto(p, "has_index")
    /\ UNCHANGED <<store, const_json, output_pdf, uploaded_file, pos,
                   index_name, hash_value, is_index_exist, data_list,
                   name_read, index, response, start_store, start_const,
                   abort_cause, failed_ever, hash_log, started>>

\* create_index, the has_index test (vector_db.py:115).
HasIndex(p) ==
    /\ pc[p] = "has_index"
    /\ Call(p, "has_index")
    /\ Goto(p, IF has_index(store, index_name[p]) THEN "describe_index"
                                                  ELSE "create_index")
    /\ UNCHANGED <<store, const_json, output_pdf, uploaded_file, pos,
                   index_name, hash_value, is_index_exist, data_list,
                   embeddings_list, embed_inputs, name_read, index, response,
                   start_store, start_const, abort_cause, failed_ever,
                   hash_log, started>>

\* create_index, the creation (vector_db.py:116-124); the provider refuses
\* a name that exists.
CreateIndex(p) ==
    /\ pc[p] = "create_index"
    /\ IF has_index(store, index_name[p])
       THEN Raise(p, "AlreadyExists")
       ELSE /\ store' = pc_create_index(store, index_name[p])
            /\ Call(p, "create_index")
            /\ Goto(p, "describe_index")
            /\ UNCHANGED <<const_json, output_pdf, uploaded_file, pos,
                           index_name, hash_value, is_index_exist, data_list,
                           embeddings_list, embed_inputs, name_read, index,
                           response, start_store, start_const, abort_cause,
                           failed_ever, hash_log, started>>

\* create_index, the wait (vector_db.py:125-126): describe_index is polled
\* until the index reports ready; the step is the end of that wait.
DescribeIndex(p) ==
    /\ pc[p] = "describe_index"
    /\ IF ~has_index(store, index_name[p])
       THEN Raise(p, "NotFound")
       ELSE /\ Call(p, "describe_index")
            /\ Goto(p, "upsert")
            /\ UNCHANGED <<store, const_json, output_pdf, uploaded_file, pos,
                           index_name, hash_value, is_index_exist, data_list,
                           embeddings_list, embed_inputs, name_read, index,
                           response, start_store, start_const, abort_cause,
                           failed_ever, hash_log, started>>

\* load_vectors (vector_db.py:140-156).
LoadVectors(p) ==
    /\ pc[p] = "upsert"
    /\ IF ~has_index(store, index_name[p])
       THEN Raise(p, "NotFound")
       ELSE /\ store' = index_upsert(store, index_name[p],
                           Records(data_list[p], embeddings_list[p]))
            /\ index' = [index EXCEPT ![p] = index_name[p]]
            /\ Call(p, "upsert")
            /\ Goto(p, "read_const")
            /\ UNCHANGED <<const_json, output_pdf, uploaded_file, pos,
                           index_name, hash_value, is_index_exist, data_list,
                           embeddings_list, embed_inputs, name_read, response,
                           start_store, start_const, abort_cause, failed_ever,
                           hash_log, started>>

\* main.py:36-37 and the except of main.py:39: a missing file is logged and
\* skipped; json.load raises on a file that holds no JSON document.
ReadConst(p) ==
    /\ pc[p] = "read_const"
    /\ IF const_json.state = "empty"
       THEN Raise(p, "JSONDecodeError")
       ELSE /\ name_read' = [name_read EXCEPT ![p] =
                   IF const_json.state = "missing" THEN None
                                                   ELSE const_json.name]
            /\ Call(p, "read_const")
            /\ Goto(p, IF const_json.state = "missing" THEN "open_const"
                                                        ELSE "delete_index")
            /\ UNCHANGED <<store, const_json, output_pdf, uploaded_file, pos,
                           index_name, hash_value, is_index_exist, data_list,
                           embeddings_list, embed_inputs, index, response,
                           start_store, start_const, abort_cause, failed_ever,
                           hash_log, started>>

\* main.py:38 and VectorDB.delete_index: the provider raises for a name it
\* does not hold.
DeleteIndex(p) ==
    /\ pc[p] = "delete_index"
    /\ IF Truthy(name_read[p]) /\ ~has_index(store, name_read[p])
       THEN Raise(p, "NotFound")
       ELSE /\ store' = IF Truthy(name_read[p])
                        THEN pc_delete_index(store, name_read[p])
                        ELSE store
            /\ Call(p, "delete_index")
            /\ Goto(p, "open_const")
            /\ UNCHANGED <<const_json, output_pdf, uploaded_file, pos,
                           index_name, hash_value, is_index_exist, data_list,
                           embeddings_list, embed_inputs, name_read, index,
                           response, start_store, start_const, abort_cause,
                           failed_ever, hash_log, started>>

\* main.py:42: the handle of the existing index; the client asks the
\* provider for the index's host.
PcIndex(p) ==
    /\ pc[p] = "pc_index"
    /\ IF ~has_index(store, hash_value[p])
       THEN Raise(p, "NotFound")
       ELSE /\ index' = [index EXCEPT ![p] = hash_value[p]]
            /\ Call(p, "describe_index")
            /\ Goto(p, "open_const")
            /\ UNCHANGED <<store, const_json, output_pdf, uploaded_file, pos,
                           index_name, hash_value, is_index_exist, data_list,
                           embeddings_list, embed_inputs, name_read, response,
                           start_store, start_const, abort_cause, failed_ever,
                           hash_log, started>>

\* main.py:43: open(.., "w") truncates const.json.
OpenConst(p) ==
    /\ pc[p] = "open_const"
    /\ const_json' = [state |-> "empty", name |-> None]
    /\ Goto(p, "dump_const")
    /\ UNCHANGED <<store, output_pdf, uploaded_file, pos, index_name,
                   hash_value, is_index_exist, data_list, embeddings_list,
                   embed_inputs, name_read, index, response, calls,
                   start_store, start_const, abort_cause, failed_ever,
                   hash_log, started>>

\* main.py:44 and the end of the with block: the record reaches the file.
DumpConst(p) ==
    /\ pc[p] = "dump_const"
    /\ const_json' = [state |-> "json", name |-> hash_value[p]]
    /\ Goto(p, "embed_query")
    /\ UNCHANGED <<store, output_pdf, uploaded_file, pos, index_name,
                   hash_value, is_index_exist, data_list, embeddings_list,
                   embed_inputs, name_read, index, response, calls,
                   start_store, start_const, abort_cause, failed_ever,
                   hash_log, started>>

\* get_results, the query-mode embed call (vector_db.py:169-173).
EmbedQuery(p) ==
    /\ pc[p] = "embed_query"
    /\ Call(p, "embed_query")
    /\ Goto(p, "query")
    /\ UNCHANGED <<store, const_json, output_pdf, uploaded_file, pos,
                   index_name, hash_value, is_index_exist, data_list,
                   embeddings_list, embed_inputs, name_read, index, response,
                   start_store, start_const, abort_cause, failed_ever,
                   hash_log, started>>

\* get_results, the query (vector_db.py:175-184).
Query(p) ==
    /\ pc[p] = "query"
    /\ IF ~has_index(store, index[p])
       THEN Raise(p, "NotFound")
       ELSE /\ response' = [response EXCEPT ![p] = index_query(store, index[p])]
            /\ Call(p, "query")
            /\ Goto(p, "get_summary")
            /\ UNCHANGED <<store, const_json, output_pdf, uploaded_file, pos,
                           index_name, hash_value, is_index_exist, data_list,
                           embeddings_list, embed_inputs, name_read, index,
                           start_store, start_const, abort_cause, failed_ever,
                           hash_log, started>>

\* main.py:47-51.
GetSummary(p) ==
    /\ pc[p] = "get_summary"
    /\ Call(p, "generate")
    /\ Goto(p, "done")
    /\ UNCHANGED <<store, const_json, output_pdf, uploaded_file, pos,
                   index_name, hash_value, is_index_exist, data_list,
                   embeddings_list, embed_inputs, name_read, index, response,
                   start_store, start_const, abort_cause, failed_ever,
                   hash_log, started>>

\* Any provider call may fail; nothing in the handler catches it.
ProviderFailure(p) ==
    /\ pc[p] \in ProviderPcs
    /\ Raise(p, "Unavailable")

\* The script run is over; the next one builds its objects anew.
Return(p) ==
    /\ pc[p] \in Finished
    /\ Goto(p, "idle")
    /\ Fresh(p)
    /\ start_store' = [start_store EXCEPT ![p] = [n \in Names |-> NoIndex]]
    /\ start_const' = [start_const EXCEPT ![p] =
                          [state |-> "missing", name |-> None]]
    /\ UNCHANGED <<store, const_json, output_pdf, failed_ever, hash_log,
                   started>>

Step(p) ==
    \/ GetHash(p) \/ ValidateIndex(p) \/ EnhanceQuery(p)
    \/ SavePdf(p) \/ LoadPdf(p) \/ EmbedPassages(p)
    \/ HasIndex(p) \/ CreateIndex(p) \/ DescribeIndex(p) \/ LoadVectors(p)
    \/ ReadConst(p) \/ DeleteIndex(p) \/ PcIndex(p)
    \/ OpenConst(p) \/ DumpConst(p)
    \/ EmbedQuery(p) \/ Query(p) \/ GetSummary(p)
    \/ ProviderFailure(p) \/ Return(p)

\* One request at a time.
Next ==
    \E p \in Procs : SeqStart(p) \/ Step(p)

Spec == Init /\ [][Next]_vars

\* Two sessions, their requests interleaved.
ConcNext ==
    \E p \in Procs : ConcStart(p) \/ Step(p)

SpecConc == Init /\ [][ConcNext]_vars

\* ------------------------------------------------ the batching code alone
\* The document whose chunk list the batching model draws.
BatchDoc == [i \in 1..1 |-> 1]

\* A request that has chunked its document into n chunks, n in 0..MaxChunks,
\* and is about to embed them.
BatchInit ==
    /\ store = [n \in Names |-> NoIndex]
    /\ const_json = [state |-> "missing", name |-> None]
    /\ output_pdf = BatchDoc
    /\ pc = [p \in Procs |-> IF p = 1 THEN "embed" ELSE "idle"]
    /\ uploaded_file = [p \in Procs |-> IF p = 1 THEN BatchDoc ELSE <<>>]
    /\ pos = [p \in Procs |-> IF p = 1 THEN Len(BatchDoc) ELSE 0]
    /\ index_name = [p \in Procs |->
                       IF p = 1 THEN get_hash(BatchDoc, 0).index_name ELSE None]
    /\ hash_value = [p \in Procs |->
                       IF p = 1 THEN get_hash(BatchDoc, 0).ret ELSE None]
    /\ is_index_exist = [p \in Procs |-> FALSE]
    /\ \E n \in 0..MaxChunks :
          data_list = [p \in Procs |->
              IF p = 1 THEN MakeDataList([i \in 1..n |-> <<BatchDoc, i>>])
                       ELSE <<>>]
    /\ embeddings_list = [p \in Procs |-> <<>>]
    /\ embed_inputs = [p \in Procs |-> <<>>]
    /\ name_read = [p \in Procs |-> None]
    /\ index = [p \in Procs |-> None]
    /\ response = [p \in Procs |-> <<>>]
    /\ calls = [p \in Procs |->
                  IF p = 1 THEN <<"has_index", "generate", "chunk">> ELSE <<>>]
    /\ start_store = [p \in Procs |-> [n \in Names |-> NoIndex]]
    /\ start_const = [p \in Procs |-> [state |-> "missing", name |-> None]]
    /\ abort_cause = [p \in Procs |-> NoAbort]
    /\ failed_ever = FALSE
    /\ hash_log = <<>>
    /\ started = 0

BatchNext == \E p \in Procs : EmbedPassages(p)

SpecBatch == BatchInit /\ [][BatchNext]_vars

\* --------------------------------------------------------- get_hash alone
\* vectordb.get_hash(uploaded_file) of session p, on the upload as it stands.
HashCall(p) ==
    /\ Len(hash_log) < MaxHashCalls
    /\ LET r == get_hash(uploaded_file[p], pos[p])
       IN  /\ pos' = [pos EXCEPT ![p] = r.pos]
           /\ index_name' = [index_name EXCEPT ![p] = r.index_name]
           /\ hash_log' = Append(hash_log,
                 [upload |-> p, bytes |-> uploaded_file[p], ret |-> r.ret,
                  pos_before |-> pos[p], pos_after |-> r.pos,
                  name_before |-> index_name[p],
                  name_after |-> r.index_name])
    /\ UNCHANGED <<store, const_json, output_pdf, pc, uploaded_file,
                   hash_value, is_index_exist, data_list, embeddings_list,
                   embed_inputs, name_read, index, response, calls,
                   start_store, start_const, abort_cause, failed_ever,
                   started>>

\* Two uploads of any bytes, unread, each with its VectorDB.
HashInit ==
    /\ store = [n \in Names |-> NoIndex]
    /\ const_json = [state |-> "missing", name |-> None]
    /\ output_pdf = <<>>
    /\ pc = [p \in Procs |-> "idle"]
    /\ uploaded_file \in [Procs -> Contents]
    /\ pos = [p \in Procs |-> 0]
    /\ index_name = [p \in Procs |-> None]
    /\ hash_value = [p \in Procs |-> None]
    /\ is_index_exist = [p \in Procs |-> FALSE]
    /\ data_list = [p \in Procs |-> <<>>]
    /\ embeddings_list = [p \in Procs |-> <<>>]
    /\ embed_inputs = [p \in Procs |-> <<>>]
    /\ name_read = [p \in Procs |-> None]
    /\ index = [p \in Procs |-> None]
    /\ response = [p \in Procs |-> <<>>]
    /\ calls = [p \in Procs |-> <<>>]
    /\ start_store = [p \in Procs |-> [n \in Names |-> NoIndex]]
    /\ start_const = [p \in Procs |-> [state |-> "missing", name |-> None]]
    /\ abort_cause = [p \in Procs |-> NoAbort]
    /\ failed_ever = FALSE
    /\ hash_log = <<>>
    /\ started = 0

HashNext == \E p \in Procs : HashCall(p)

SpecHash == HashInit /\ [][HashNext]_vars

\* ================================================================ claims
Texts(dl) == [i \in 1..Len(dl) |-> dl[i].text]

RECURSIVE Count(_, _)
Count(seq, what) ==
    IF seq = <<>> THEN 0
    ELSE (IF Head(seq) = what THEN 1 ELSE 0) + Count(Tail(seq), what)

Embedded(p) == pc[p] = "has_index"

\* C1: once convert_vectors has made its embed calls, the inputs it sent,
\* concatenated, are exactly the chunk list, and embeddings_list holds one
\* embedding per chunk in chunk order, for every length of the chunk list.
C1_OneEmbeddingPerChunk ==
    \A p \in Procs : Embedded(p) =>
        /\ Flatten(embed_inputs[p]) = Texts(data_list[p])
        /\ embeddings_list[p] = embed(Texts(data_list[p]))

\* C9: every passage-mode embed call of convert_vectors carries at most 96
\* inputs, and the calls carry consecutive slices of the chunk list: each
\* starts where the one before it ended, the first at the first chunk.
C9_BatchesAtMost96 ==
    \A p \in Procs : Embedded(p) =>
        /\ \A k \in 1..Len(embed_inputs[p]) : Len(embed_inputs[p][k]) <= BATCH
        /\ LET sent == Flatten(embed_inputs[p])
           IN  /\ Len(sent) <= Len(data_list[p])
               /\ sent = Slice(Texts(data_list[p]), 0, Len(sent))

\* C9, its case: a chunk list longer than 96 has been sent in three calls.
C9_Witness ==
    \E p \in Procs :
        /\ Embedded(p)
        /\ Len(data_list[p]) > BATCH
        /\ Len(embed_inputs[p]) = 3

\* A request that found const.json naming another document's index.
FoundOther(p) ==
    /\ start_const[p].state = "json"
    /\ start_const[p].name # hash_value[p]

\* C2: with no provider failure, a request for document B that completes,
\* having started with const.json naming the index of another document A,
\* leaves const.json naming B's index and A's index deleted from the store.
C2_PointerMovesAndOldIndexDeleted ==
    \A p \in Procs :
        (pc[p] = "done" /\ ~failed_ever /\ FoundOther(p)) =>
            /\ const_json = [state |-> "json", name |-> hash_value[p]]
            /\ ~has_index(store, start_const[p].name)
            /\ has_index(store, hash_value[p])

\* C2, its case: B has completed after A, nothing having failed.
C2_Witness ==
    \E p \in Procs : pc[p] = "done" /\ ~failed_ever /\ FoundOther(p)

BuildCalls == {"chunk", "embed_passage", "create_index", "upsert",
               "delete_index"}

\* C3: a request whose fingerprint names an existing index issues no
\* chunking, no passage-mode embed call, no index creation, no upsert and no
\* index deletion; it queries the index of that name, and once it has
\* completed it has made exactly one embed call, the query-mode one.
C3_ReuseIssuesNoBuildCall ==
    \A p \in Procs : is_index_exist[p] =>
        /\ \A k \in 1..Len(calls[p]) : calls[p][k] \notin BuildCalls
        /\ embed_inputs[p] = <<>>
        /\ pc[p] \in {"open_const", "dump_const", "embed_query", "query",
                       "get_summary", "done"} => index[p] = hash_value[p]
        /\ pc[p] = "done" => Count(calls[p], "embed_query") = 1

\* C3, its case: a request that found its index has completed.
C3_Witness ==
    \E p \in Procs : pc[p] = "done" /\ is_index_exist[p]

\* C4: a request abandoned on a failed provider call leaves the store and
\* const.json as it found them.
C4_NoPartialResult ==
    \A p \in Procs : pc[p] = "aborted" =>
        /\ store = start_store[p]
        /\ const_json = start_const[p]

\* C5: on the build path a const.json that is missing or holds no JSON
\* record is taken as "nothing to evict": the request is not abandoned at
\* the read, and goes on to write the pointer.
C5_UnreadablePointerAbsorbed ==
    \A p \in Procs :
        ~(pc[p] = "aborted" /\ abort_cause[p].at = "read_const")

\* C6: delete_index raises nothing for a name that is empty or names no
\* index of the store: no request is abandoned there for a missing index.
C6_DeleteOfAbsentIsNoOp ==
    \A p \in Procs :
        ~(/\ pc[p] = "aborted"
          /\ abort_cause[p].at = "delete_index"
          /\ abort_cause[p].cause = "NotFound")

\* C7: the chunks a request embeds come from its own document, and the
\* records held under a fingerprint come from the document of that
\* fingerprint, whatever the other request does meanwhile.
C7_ChunksOfOwnDocument ==
    /\ \A p \in Procs : \A i \in 1..Len(data_list[p]) :
          data_list[p][i].text[1] = uploaded_file[p]
    /\ \A n \in Names : \A i \in 1..Len(store[n].vectors) :
          get_hash(store[n].vectors[i].metadata.text[1], 0).ret = n

\* C8: get_hash is a function of the upload's bytes (two calls on uploads of
\* the same bytes, the same upload included, return the same fingerprint)
\* and changes neither the upload's read position nor the VectorDB.
C8_GetHashPure ==
    /\ \A i, j \in 1..Len(hash_log) :
          hash_log[i].bytes = hash_log[j].bytes =>
              hash_log[i].ret = hash_log[j].ret
    /\ \A i \in 1..Len(hash_log) :
          /\ hash_log[i].pos_after = hash_log[i].pos_before
          /\ hash_log[i].name_after = hash_log[i].name_before

NoRequest == \A p \in Procs : pc[p] \in {"idle"} \cup Finished

\* C10: with requests run one at a time, from an empty store and no
\* const.json, any provider call failing: whenever no request is in progress
\* the index const.json names exists; the name evicted is never the
\* fingerprint of the document being processed; and the index a request has
\* built is still there until the request has queried it.
C10_PointerNamesExistingIndex ==
    /\ (NoRequest /\ const_json.state = "json") =>
          has_index(store, const_json.name)
    /\ \A p \in Procs :
          /\ pc[p] = "delete_index" => name_read[p] # hash_value[p]
          /\ (~is_index_exist[p] /\ pc[p] \in {"open_const", "dump_const",
                                                "embed_query", "query"}) =>
                has_index(store, index[p])

\* C10, its case: after some provider failure, a request evicts an index.
C10_Witness ==
    \E p \in Procs :
        /\ failed_ever
        /\ pc[p] = "open_const"
        /\ Truthy(name_read[p])
        /\ ~has_index(store, name_read[p])

====
